---- MODULE Spec2Model ----
(***************************************************************************)
(* Model of the write terms of rdb_protocol/terms/writes.cc: insert,       *)
(* replace and foreach, as the sequential programs their eval_impl         *)
(* methods are, together with the datum merge, the key generator and the   *)
(* option parsers they use.  The table engine, the datum stream and the    *)
(* function evaluator are the environment.                                 *)
(***************************************************************************)
EXTENDS Integers, Sequences, FiniteSets, TLC

VARIABLES
    term,            \* which eval_impl runs: "insert", "replace", "foreach"
    pc,              \* position inside eval_impl
    arg,             \* the data argument: literal datum, stream or selection
    fn,              \* the function argument of replace (arg 1)
    val,             \* foreach's local `v`: what f->call returned
    limit,           \* env->env->limits().array_size_limit()
    opts,            \* the parsed optargs (locals of eval_impl)
    stream,          \* what the datum stream has not handed out yet
    projected,       \* number of transformations added to the stream
    batch,           \* the batch as next_batch returned it
    datums,          \* local `datums` / `vals` of the loop body
    flags,           \* local `pkey_was_autogenerated`
    stats,           \* local `stats`
    conditions,      \* local `conditions`
    generated_keys,  \* local `generated_keys`
    keys_skipped,    \* local `keys_skipped`
    uuids,           \* number of uuids generate_uuid() has handed out
    pulls,           \* number of next_batch()/next() calls made
    calls,           \* the table-engine and function calls made, in order
    result,          \* the value eval_impl returned
    err              \* the exception that left eval_impl

vars == <<term, pc, arg, fn, val, limit, opts, stream, projected, batch, datums,
          flags, stats, conditions, generated_keys, keys_skipped,
          uuids, pulls, calls, result, err>>

(***************************************************************************)
(* Bounds of the model.                                                    *)
(***************************************************************************)
MaxDocs == 3      \* longest source sequence
MaxLimit == 2     \* largest array_size_limit tried

(***************************************************************************)
(* Datums.  A leaf of a stats object is a tagged value; a document is a    *)
(* tagged value whose `obj` maps field names to field values.              *)
(***************************************************************************)
EmptyObj == <<>>

Datum(t, n, x, a, o) == [type |-> t, num |-> n, str |-> x, arr |-> a, obj |-> o]
Num(n) == Datum("NUM", n, "", <<>>, EmptyObj)
Str(x) == Datum("STR", 0, x, <<>>, EmptyObj)
Arr(s) == Datum("ARR", 0, "", s, EmptyObj)
Object(o) == Datum("OBJECT", 0, "", <<>>, o)
\* the string a uuid is rendered as, named by the uuid's number
Uuid(n) == Datum("STR", n, "uuid", <<>>, EmptyObj)
\* in place of a datum: the exception of class t that was thrown instead
Thrown(t) == Datum(t, 0, "", <<>>, EmptyObj)

Obj1(k, v) == [x \in {k} |-> v]

Scalar == Num(0)

\* an exception: its class, its message, the frame it points at, and what
\* was appended to the message
Exc(t, m, b) == [type |-> t, msg |-> m, bt |-> b, detail |-> ""]
NoErr == Exc("NONE", "", "")

NoResult == [has |-> FALSE, stats |-> EmptyObj, warnings |-> <<>>]

\* pure_merge: r_sanity_check(false)
pure_merge(key, l, r) == Thrown("SANITY")

\* stats_merge (rdb_protocol): numbers add, arrays concatenate, anything
\* else cannot be merged.
stats_merge(key, l, r) ==
    IF l.type = "NUM" /\ r.type = "NUM" THEN Num(l.num + r.num)
    ELSE IF l.type = "ARR" /\ r.type = "ARR" THEN Arr(l.arr \o r.arr)
    ELSE Thrown("LOGIC")

\* the call of the merge function f that datum_t::merge was handed
Resolve(f, key, l, r) ==
    IF f = "pure_merge" THEN pure_merge(key, l, r) ELSE stats_merge(key, l, r)

\* datum_t::merge(rhs, f, limits, conditions): f resolves the keys both have
merge(l, r, f) ==
    [k \in (DOMAIN l) \cup (DOMAIN r) |->
        IF k \in DOMAIN l /\ k \in DOMAIN r THEN Resolve(f, k, l[k], r[k])
        ELSE IF k \in DOMAIN l THEN l[k] ELSE r[k]]

\* the merge threw: some leaf could not be resolved
MergeThrew(o) == \E k \in DOMAIN o : o[k].type \in {"SANITY", "LOGIC"}

StatKeys == {"inserted", "deleted", "skipped", "replaced", "unchanged", "errors"}

\* (a stats object without any counter)
new_stats_object_empty == EmptyObj

new_stats_object == [k \in StatKeys |-> Num(0)]

(***************************************************************************)
(* Optargs as the caller wrote them, and the option parsers.               *)
(***************************************************************************)
Absent == [t |-> "ABSENT", s |-> ""]
StrArg(x) == [t |-> "STR", s |-> x]
BoolArg(b) == [t |-> "BOOL", s |-> IF b THEN "true" ELSE "false"]
NumArg == [t |-> "NUM", s |-> "1"]

ConflictArgs == {Absent, StrArg("error"), StrArg("replace"), StrArg("update"),
                 StrArg("bogus"), NumArg}
DurabilityArgs == {Absent, StrArg("hard"), StrArg("soft"), StrArg("bogus"), NumArg}
ReturnChangesArgs == {Absent, BoolArg(TRUE), BoolArg(FALSE), StrArg("always"),
                      StrArg("bogus"), NumArg}
ReturnValsArgs == {Absent, BoolArg(TRUE)}
NonAtomicArgs == {Absent, BoolArg(TRUE), BoolArg(FALSE)}

\* what a parser gives: a value, or the exception it raised
Parsed(v) == [ok |-> TRUE, val |-> v, msg |-> ""]
Rejected(m) == [ok |-> FALSE, val |-> "", msg |-> m]

parse_conflict_optarg(a) ==
    IF a.t = "ABSENT" THEN Parsed("ERROR")
    ELSE IF a.t # "STR" THEN Rejected("conflict: expected type STRING")
    ELSE IF a.s = "error" THEN Parsed("ERROR")
    ELSE IF a.s = "replace" THEN Parsed("REPLACE")
    ELSE IF a.s = "update" THEN Parsed("UPDATE")
    ELSE Rejected("Conflict option unrecognized")

\* (a parser that falls back to the default on what it does not know)
parse_durability_defaulting(a) ==
    IF a.t = "STR" /\ a.s = "hard" THEN Parsed("HARD")
    ELSE IF a.t = "STR" /\ a.s = "soft" THEN Parsed("SOFT")
    ELSE Parsed("DEFAULT")

parse_durability_optarg(a) ==
    IF a.t = "ABSENT" THEN Parsed("DEFAULT")
    ELSE IF a.t # "STR" THEN Rejected("durability: expected type STRING")
    ELSE IF a.s = "hard" THEN Parsed("HARD")
    ELSE IF a.s = "soft" THEN Parsed("SOFT")
    ELSE Rejected("Durability option unrecognized")

\* v->as_bool(): the boolean the value is, a type error for any other value
as_bool(a) ==
    IF a.t = "BOOL" THEN Parsed(a.s)
    ELSE Rejected("expected type BOOL")

parse_return_changes(rv, rc) ==
    IF rv.t # "ABSENT" THEN Rejected("encountered obsolete optarg return_vals")
    ELSE IF rc.t # "ABSENT" THEN
        IF rc.t = "STR" THEN
            IF rc.s = "always" THEN Parsed("ALWAYS")
            ELSE Rejected("Invalid return_changes value")
        ELSE IF as_bool(rc).ok
             THEN Parsed(IF as_bool(rc).val = "true" THEN "YES" ELSE "NO")
             ELSE as_bool(rc)
    ELSE Parsed("NO")

NoOpts == [conflict |-> "", durability |-> "", return_changes |-> "",
           nondet_ok |-> FALSE]

\* lines 129-134: the optargs of insert, parsed in the order of the code up
\* to the first one that is rejected
insert_optargs(rv, rc, cf, du) ==
    LET p1 == parse_return_changes(rv, rc)
        p2 == parse_conflict_optarg(cf)
        p3 == parse_durability_optarg(du)
        o1 == [NoOpts EXCEPT !.return_changes = p1.val]
        o2 == [o1 EXCEPT !.conflict = p2.val]
        o3 == [o2 EXCEPT !.durability = p3.val]
    IN  IF ~p1.ok THEN [ok |-> FALSE, opts |-> NoOpts, msg |-> p1.msg]
        ELSE IF ~p2.ok THEN [ok |-> FALSE, opts |-> o1, msg |-> p2.msg]
        ELSE IF ~p3.ok THEN [ok |-> FALSE, opts |-> o2, msg |-> p3.msg]
        ELSE [ok |-> TRUE, opts |-> o3, msg |-> ""]

\* lines 237-244: the optargs of replace
replace_optargs(na, rv, rc, du) ==
    LET nondet_ok == (na.t # "ABSENT" /\ na.s = "true")
        p1 == parse_return_changes(rv, rc)
        p3 == parse_durability_optarg(du)
        o1 == [NoOpts EXCEPT !.nondet_ok = nondet_ok]
        o2 == [o1 EXCEPT !.return_changes = p1.val]
        o3 == [o2 EXCEPT !.durability = p3.val]
    IN  IF ~p1.ok THEN [ok |-> FALSE, opts |-> o1, msg |-> p1.msg]
        ELSE IF ~p3.ok THEN [ok |-> FALSE, opts |-> o2, msg |-> p3.msg]
        ELSE [ok |-> TRUE, opts |-> o3, msg |-> ""]

(***************************************************************************)
(* Inputs.                                                                 *)
(***************************************************************************)
PKey == "id"      \* tbl->get_pkey()

DocNoKey == Object(Obj1("a", Num(1)))
DocWithKey == Object(Obj1(PKey, Num(1)))

\* what an insert can be given: a keyless object, a keyed object, a scalar
InsertDocs == {DocNoKey, DocWithKey, Scalar}

SeqsUpTo(S, n) == UNION {[1..m -> S] : m \in 0..n}

Prefixes(s) == {SubSeq(s, 1, n) : n \in 1..Len(s)}

NoFn == [det |-> TRUE, kind |-> ""]

\* a val_t: the datum it holds, or the exception as_datum() raises
Val(d) == [datum |-> d, lazy |-> "NONE"]
LazyThrows(t) == [datum |-> Num(0), lazy |-> t]
NoVal == Val(Num(0))

(***************************************************************************)
(* The key generator.                                                      *)
(***************************************************************************)
\* generate_uuid(): the n-th uuid handed out
generate_uuid(n) == Uuid(n)

\* (a test that finds the primary key in no document)
has_pkey_never(o) == FALSE

\* line 96: the datum has a value at the primary-key field
has_pkey(o) == PKey \in DOMAIN o

replace_by_generated_key(o, key) == Obj1(PKey, key)

\* lines 100-105: the key merged into the document as its primary-key field
add_generated_key(o, key) == merge(o, Obj1(PKey, key), "pure_merge")

key_fits_off_by_one(gk, lim) == Len(gk) <= lim

\* line 110: there is room for one more generated key
key_fits(gk, lim) == Len(gk) < lim

\* maybe_generate_key on datum d, with the request's generated keys gk, skip
\* count sk and n uuids handed out so far.  `threw`: an exception left it.
maybe_generate_key(d, gk, sk, n, lim) ==
    IF d.type # "OBJECT" THEN
        \* get_field on a datum that is no object throws
        [threw |-> TRUE, datum |-> d, gk |-> gk, sk |-> sk, n |-> n, auto |-> FALSE]
    ELSE IF ~has_pkey(d.obj) THEN
        LET key == generate_uuid(n + 1)
            merged == add_generated_key(d.obj, key)
        IN  IF MergeThrew(merged) THEN
                [threw |-> TRUE, datum |-> d, gk |-> gk, sk |-> sk, n |-> n + 1,
                 auto |-> FALSE]
            ELSE
                [threw |-> FALSE, datum |-> Object(merged),
                 gk |-> IF key_fits(gk, lim) THEN Append(gk, key) ELSE gk,
                 sk |-> IF key_fits(gk, lim) THEN sk ELSE sk + 1,
                 n |-> n + 1, auto |-> TRUE]
    ELSE
        [threw |-> FALSE, datum |-> d, gk |-> gk, sk |-> sk, n |-> n, auto |-> FALSE]

\* (a loop body that flags only the keys that were kept in generated_keys)
generate_key_step_flags_kept(st, i, lim) ==
    LET r == maybe_generate_key(st.datums[i], st.gk, st.sk, st.n, lim)
    IN  [datums |-> [st.datums EXCEPT ![i] = r.datum],
         flags |-> [st.flags EXCEPT ![i] = Len(r.gk) > Len(st.gk)],
         gk |-> r.gk, sk |-> r.sk, n |-> r.n]

\* the body of `for (size_t i = 0; i < datums.size(); ++i)`: one try/catch
\* around maybe_generate_key; the flag keeps its initial false on a throw
generate_key_step(st, i, lim) ==
    LET r == maybe_generate_key(st.datums[i], st.gk, st.sk, st.n, lim)
    IN  [datums |-> [st.datums EXCEPT ![i] = r.datum],
         flags |-> [st.flags EXCEPT ![i] = IF r.threw THEN @ ELSE r.auto],
         gk |-> r.gk, sk |-> r.sk, n |-> r.n]

RECURSIVE generate_keys_loop_abort(_, _, _)
generate_keys_loop_abort(st, i, lim) ==
    IF i > Len(st.datums) \/ st.datums[i].type # "OBJECT" THEN st
    ELSE generate_keys_loop_abort(generate_key_step(st, i, lim), i + 1, lim)

RECURSIVE generate_keys_loop(_, _, _)
generate_keys_loop(st, i, lim) ==
    IF i > Len(st.datums) THEN st
    ELSE CHOOSE r \in {generate_keys_loop(s2, i + 1, lim) :
                           s2 \in {generate_key_step(st, i, lim)}} : TRUE

(***************************************************************************)
(* The table engine, as far as the write terms see it: the stats object a  *)
(* call returns counts one outcome per document.  The table holds a row    *)
(* with primary key 1.                                                     *)
(***************************************************************************)
InsertOutcome(d, flag, conflict) ==
    IF d.type # "OBJECT" THEN "errors"
    ELSE IF PKey \notin DOMAIN d.obj THEN "errors"
    ELSE IF flag THEN "inserted"
    ELSE IF conflict = "ERROR" THEN "errors"
    ELSE IF conflict = "REPLACE" THEN "replaced"
    ELSE "unchanged"

CountOf(outcomes, k) == Cardinality({i \in DOMAIN outcomes : outcomes[i] = k})

StatsOf(outcomes) == [k \in StatKeys |-> Num(CountOf(outcomes, k))]

batched_insert(ds, fl, conflict) ==
    StatsOf([i \in DOMAIN ds |-> InsertOutcome(ds[i], fl[i], conflict)])

InsertCall(ds, fl) == [op |-> "batched_insert", docs |-> ds, flags |-> fl,
                       keys |-> <<>>, det |-> TRUE, nondet_ok |-> FALSE]

(***************************************************************************)
(* insert_term_t::eval_impl                                                *)
(***************************************************************************)
InsertArgs ==
    {[kind |-> "datum", docs |-> <<d>>] : d \in InsertDocs}
    \cup {[kind |-> "seq", docs |-> s] : s \in SeqsUpTo(InsertDocs, MaxDocs)}

InitInsert ==
    /\ term = "insert"
    /\ arg \in InsertArgs
    /\ limit \in 0..MaxLimit
    /\ fn = NoFn
    /\ val = NoVal

\* (an exception that is swallowed: the loop ends and the term returns)
FailSwallowed(e) ==
    /\ pc' = "finish"
    /\ err' = e

\* an exception leaves eval_impl
Fail(e) ==
    /\ pc' = "failed"
    /\ err' = e

MergeStatsOverwrite(st, rs) == rs

MergeStatsDropped(st, rs) == st

MergeStatsUnresolved(st, rs) == merge(st, rs, "pure_merge")

\* stats = stats.merge(replace_stats, stats_merge, limits, &conditions)
MergeStats(st, rs) == merge(st, rs, "stats_merge")

KeysWarningOfSkipped(sk, kept) ==
    [msg |-> "Too many generated keys (%zu), array truncated to %zu.",
     count |-> sk, truncated_to |-> kept]

\* lines 216-219: the message and the two numbers printed into it
KeysWarning(sk, kept) ==
    [msg |-> "Too many generated keys (%zu), array truncated to %zu.",
     count |-> sk + kept, truncated_to |-> kept]

\* lines 128-140: the optargs are parsed, the locals initialised
InsertParseOptargs ==
    /\ term = "insert" /\ pc = "start"
    /\ \E rv \in ReturnValsArgs, rc \in ReturnChangesArgs,
          cf \in ConflictArgs, du \in DurabilityArgs :
          LET p == insert_optargs(rv, rc, cf, du)
          IN  /\ opts' = p.opts
              /\ IF ~p.ok THEN Fail(Exc("LOGIC", p.msg, "term")) /\ stats' = stats
                 ELSE /\ stats' = new_stats_object
                      /\ pc' = "arg1"
                      /\ err' = err
    /\ UNCHANGED <<term, arg, fn, val, limit, stream, projected, batch, datums, flags,
                   conditions, generated_keys, keys_skipped, uuids, pulls,
                   calls, result>>

\* (a test of line 142 without the one of line 146)
is_literal_datum(a) == a.kind = "datum"

\* lines 142 and 146: v1 is convertible to a datum, and the datum is an object
is_literal_object(a) == a.kind = "datum" /\ a.docs[1].type = "OBJECT"

\* lines 141-146 and 166-167: v1 is a single object, or is made a stream
InsertEvalArg1 ==
    /\ term = "insert" /\ pc = "arg1"
    /\ IF is_literal_object(arg) THEN
           /\ datums' = arg.docs
           /\ batch' = arg.docs
           /\ flags' = <<FALSE>>
           /\ pc' = "lit_genkey"
           /\ UNCHANGED <<stream, err>>
       ELSE IF arg.kind = "datum" THEN
           \* as_seq of a datum that is no sequence
           /\ Fail(Exc("LOGIC", "Cannot convert to SEQUENCE", "term"))
           /\ UNCHANGED <<stream, datums, batch, flags>>
       ELSE
           /\ stream' = arg.docs
           /\ pc' = "pull"
           /\ UNCHANGED <<datums, batch, flags, err>>
    /\ UNCHANGED <<term, arg, fn, val, limit, opts, projected, stats, conditions,
                   generated_keys, keys_skipped, uuids, pulls, calls, result>>

\* the key generation of the loop body or of the literal path
GenerateKeys(next) ==
    \E st \in {generate_keys_loop(
                  [datums |-> datums, flags |-> flags, gk |-> generated_keys,
                   sk |-> keys_skipped, n |-> uuids], 1, limit)} :
        /\ datums' = st.datums
        /\ flags' = st.flags
        /\ generated_keys' = st.gk
        /\ keys_skipped' = st.sk
        /\ uuids' = st.n
        /\ pc' = next
        /\ UNCHANGED <<term, arg, fn, val, limit, opts, stream, projected, batch, stats, conditions, pulls, calls, result, err>>

\* the table call and the merge of its result
CallBatchedInsert(next) ==
    \E merged \in {MergeStats(stats, batched_insert(datums, flags, opts.conflict))} :
        /\ calls' = Append(calls, InsertCall(datums, flags))
        /\ IF MergeThrew(merged)
           THEN Fail(Exc("LOGIC", "Cannot merge statistics", "term")) /\ stats' = stats
           ELSE stats' = merged /\ pc' = next /\ err' = err
        /\ datums' = <<>>
        /\ flags' = <<>>
        /\ batch' = <<>>
        /\ UNCHANGED <<term, arg, fn, val, limit, opts, stream, projected, conditions, generated_keys, keys_skipped, uuids, pulls,
                       result>>

\* lines 147-156
InsertLiteralGenerateKey ==
    /\ term = "insert" /\ pc = "lit_genkey"
    /\ GenerateKeys("lit_call")

\* lines 157-162
InsertLiteralCall ==
    /\ term = "insert" /\ pc = "lit_call"
    /\ CallBatchedInsert("finish")

\* what next_batch may return: some documents of a stream that has any,
\* the empty batch at its end
NextBatches(s) == IF s = <<>> THEN {<<>>} ELSE Prefixes(s)

\* (a loop that does not test the batch it pulled)
loop_never_ends(b) == FALSE

\* (a loop that also stops on a batch of one document)
loop_ends_early(b) == Len(b) <= 1

\* lines 173-175 and 286-288: `if (datums.empty()) { break; }`
loop_ends(b) == b = <<>>

\* lines 171-177: next_batch; an empty batch ends the loop
InsertNextBatch ==
    /\ term = "insert" /\ pc = "pull"
    /\ pulls' = pulls + 1
    /\ \E b \in NextBatches(stream) :
           /\ batch' = b
           /\ stream' = SubSeq(stream, Len(b) + 1, Len(stream))
           /\ IF loop_ends(b) THEN
                  /\ pc' = "finish"
                  /\ UNCHANGED <<datums, flags>>
              ELSE
                  /\ datums' = b
                  /\ flags' = [i \in DOMAIN b |-> FALSE]
                  /\ pc' = "genkeys"
    /\ UNCHANGED <<term, arg, fn, val, limit, opts, projected, stats, conditions,
                   generated_keys, keys_skipped, uuids, calls, result, err>>

\* lines 178-189
InsertGenerateKeys ==
    /\ term = "insert" /\ pc = "genkeys"
    /\ GenerateKeys("call")

\* lines 191-195
InsertBatchedInsert ==
    /\ term = "insert" /\ pc = "call"
    /\ CallBatchedInsert("pull")

\* lines 199-211: generated_keys is folded into the stats if it is not empty
FoldGeneratedKeys(st, gk) ==
    IF Len(gk) > 0
    THEN merge(st, Obj1("generated_keys", Arr(gk)), "pure_merge")
    ELSE st

\* (a result whose skipped counter takes the skip count of the generator)
insert_result_counting_skipped(st, gk, sk) ==
    [has |-> TRUE,
     stats |-> [st EXCEPT !["skipped"] = Num(@.num + sk)],
     warnings |-> IF sk > 0 THEN <<KeysWarning(sk, Len(gk))>> ELSE <<>>]

\* lines 213-222: the value returned is the stats object, with the warning
\* of the skipped keys if there is one
insert_result(st, gk, sk) ==
    [has |-> TRUE,
     stats |-> st,
     warnings |-> IF sk > 0 THEN <<KeysWarning(sk, Len(gk))>> ELSE <<>>]

\* lines 199-222: generated_keys folded in, the warnings, the return
InsertFinish ==
    /\ term = "insert" /\ pc = "finish"
    /\ LET folded == FoldGeneratedKeys(stats, generated_keys)
       IN  IF MergeThrew(folded) THEN
               /\ Fail(Exc("INTERNAL", "sanity check failed", "term"))
               /\ UNCHANGED <<stats, result>>
           ELSE
               /\ stats' = folded
               /\ result' = insert_result(folded, generated_keys, keys_skipped)
               /\ pc' = "done"
               /\ err' = err
    /\ UNCHANGED <<term, arg, fn, val, limit, opts, stream, projected, batch, datums,
                   flags, conditions, generated_keys, keys_skipped, uuids,
                   pulls, calls>>

Insert ==
    \/ InsertParseOptargs
    \/ InsertEvalArg1
    \/ InsertLiteralGenerateKey
    \/ InsertLiteralCall
    \/ InsertNextBatch
    \/ InsertGenerateKeys
    \/ InsertBatchedInsert
    \/ InsertFinish

(***************************************************************************)
(* replace_term_t::eval_impl                                               *)
(***************************************************************************)
\* the rows of the table: each has the primary key, one has another field
Row1 == Object(Obj1(PKey, Num(1)))
Row2 == Object([k \in {PKey, "a"} |-> IF k = PKey THEN Num(2) ELSE Num(1)])
TableRows == {Row1, Row2}

\* the transformation functions tried: deterministic or not, one that
\* rewrites every row and one that fails on the rows with a field `a`
ReplaceFns == [det : BOOLEAN, kind : {"set", "fails_on_a"}]

ReplaceArgs ==
    {[kind |-> "single", docs |-> <<d>>] : d \in TableRows}
    \cup {[kind |-> "selection", docs |-> s] : s \in SeqsUpTo(TableRows, MaxDocs)}

InitReplace ==
    /\ term = "replace"
    /\ arg \in ReplaceArgs
    /\ limit = MaxLimit      \* replace generates no keys
    /\ fn \in ReplaceFns
    /\ val = NoVal

\* the table's row with primary key k
RowOfKey(k) == CHOOSE r \in TableRows : r.obj[PKey] = k

ReplaceOutcome(k, f) ==
    IF f.kind = "set" THEN "replaced"
    ELSE IF "a" \in DOMAIN RowOfKey(k).obj THEN "errors"
    ELSE "unchanged"

\* tbl->batched_replace(env, vals, keys, f, nondet_ok, ...)
batched_replace(vs, ks, f) ==
    StatsOf([i \in DOMAIN ks |-> ReplaceOutcome(ks[i], f)])

\* sel->replace(f, nondet_ok, ...)
single_replace(row, f) == StatsOf(<<ReplaceOutcome(row.obj[PKey], f)>>)

ReplaceCall(op, vs, ks) ==
    [op |-> op, docs |-> vs, flags |-> <<>>, keys |-> ks, det |-> fn.det,
     nondet_ok |-> opts.nondet_ok]

NotDeterministicMsg == "Could not prove argument deterministic."

\* args->arg_is_deterministic(1)
arg_is_deterministic(f) == f.det

DeterminismGateOpen(nondet_ok, f) == TRUE

\* the determinism gate of lines 246-250: may the request go on
DeterminismGate(nondet_ok, f) == nondet_ok \/ arg_is_deterministic(f)

\* lines 237-258: optargs, the determinism gate, the locals
ReplaceParseOptargs ==
    /\ term = "replace" /\ pc = "start"
    /\ \E na \in NonAtomicArgs, rv \in ReturnValsArgs, rc \in ReturnChangesArgs,
          du \in DurabilityArgs :
          LET p == replace_optargs(na, rv, rc, du)
          IN  /\ opts' = p.opts
              /\ IF ~p.ok THEN Fail(Exc("LOGIC", p.msg, "term")) /\ stats' = stats
                 ELSE IF ~DeterminismGate(p.opts.nondet_ok, fn) THEN
                      Fail(Exc("LOGIC", NotDeterministicMsg, "term")) /\ stats' = stats
                 ELSE /\ stats' = new_stats_object
                      /\ pc' = "arg0"
                      /\ err' = err
    /\ UNCHANGED <<term, arg, fn, val, limit, stream, projected, batch, datums, flags,
                   conditions, generated_keys, keys_skipped, uuids, pulls,
                   calls, result>>

\* (a function that is never taken for deterministic)
is_deterministic_never(f) == FALSE

\* f->is_deterministic()
is_deterministic(f) == f.det

\* lines 260 and 267-282: a single selection, or a selection whose stream
\* gets the primary-key projection when f is deterministic
ReplaceEvalArg0 ==
    /\ term = "replace" /\ pc = "arg0"
    /\ IF arg.kind = "single" THEN
           /\ pc' = "single"
           /\ UNCHANGED <<stream, projected>>
       ELSE
           /\ stream' = arg.docs
           /\ projected' = IF is_deterministic(fn) THEN projected + 1 ELSE projected
           /\ pc' = "pull"
    /\ UNCHANGED <<term, arg, fn, val, limit, opts, batch, datums, flags, stats,
                   conditions, generated_keys, keys_skipped, uuids, pulls, calls,
                   result, err>>

\* the merge of a call's result into the running total
ReplaceMerge(replace_stats, next) ==
    LET merged == MergeStats(stats, replace_stats)
    IN  IF MergeThrew(merged)
        THEN Fail(Exc("LOGIC", "Cannot merge statistics", "term")) /\ stats' = stats
        ELSE stats' = merged /\ pc' = next /\ err' = err

\* lines 261-265
ReplaceSingle ==
    /\ term = "replace" /\ pc = "single"
    /\ calls' = Append(calls, ReplaceCall("replace", arg.docs, <<>>))
    /\ ReplaceMerge(single_replace(arg.docs[1], fn), "finish")
    /\ UNCHANGED <<term, arg, fn, val, limit, opts, stream, projected, batch, datums,
                   flags, conditions, generated_keys, keys_skipped, uuids,
                   pulls, result>>

\* what the stream hands out for a row: the row, or what the attached
\* transformation makes of it
Transformed(row) == IF projected > 0 THEN row.obj[PKey] ELSE row

\* lines 284-287
ReplaceNextBatch ==
    /\ term = "replace" /\ pc = "pull"
    /\ pulls' = pulls + 1
    /\ \E b \in NextBatches(stream) :
           /\ batch' = b
           /\ datums' = [i \in DOMAIN b |-> Transformed(b[i])]
           /\ stream' = SubSeq(stream, Len(b) + 1, Len(stream))
           /\ pc' = IF loop_ends(datums') THEN "finish" ELSE "call"
    /\ UNCHANGED <<term, arg, fn, val, limit, opts, projected, flags, stats,
                   conditions, generated_keys, keys_skipped, uuids, calls, result,
                   err>>

\* lines 289-297: the keys read from the pulled documents themselves
ExtractKeys(vals) == [i \in DOMAIN vals |-> vals[i].obj[PKey]]

\* lines 289-303
ReplaceBatchedReplace ==
    /\ term = "replace" /\ pc = "call"
    /\ LET ks == IF ~is_deterministic(fn) THEN ExtractKeys(datums) ELSE datums
       IN  /\ calls' = Append(calls, ReplaceCall("batched_replace", datums, ks))
           /\ ReplaceMerge(batched_replace(datums, ks, fn), "pull")
    /\ datums' = <<>>
    /\ batch' = <<>>
    /\ UNCHANGED <<term, arg, fn, val, limit, opts, stream, projected, flags, conditions, generated_keys, keys_skipped, uuids, pulls, result>>

\* lines 306-308
ReplaceFinish ==
    /\ term = "replace" /\ pc = "finish"
    /\ result' = [has |-> TRUE, stats |-> stats, warnings |-> <<>>]
    /\ pc' = "done"
    /\ UNCHANGED <<term, arg, fn, val, limit, opts, stream, projected, batch, datums,
                   flags, stats, conditions, generated_keys, keys_skipped,
                   uuids, pulls, calls, err>>

Replace ==
    \/ ReplaceParseOptargs
    \/ ReplaceEvalArg0
    \/ ReplaceSingle
    \/ ReplaceNextBatch
    \/ ReplaceBatchedReplace
    \/ ReplaceFinish

(***************************************************************************)
(* foreach_term_t::eval_impl                                               *)
(***************************************************************************)
fail_msg == "FOR_EACH expects one or more basic write queries."

\* the rows of the source, named by what the function makes of them
ForeachRows == {Str("write"), Str("writes"), Str("partial"), Str("scalar"),
                Str("misfit"), Str("bad_element"), Str("call_throws"),
                Str("lazy_throws")}

OneStat(k) == Object(StatsOf(<<k>>))

\* f->call(env, row): the val it returns, or the exception it throws
CallThrows(row) == row.str = "call_throws"

FCall(row) ==
    IF row.str = "write" THEN Val(OneStat("inserted"))
    ELSE IF row.str = "writes" THEN Val(Arr(<<OneStat("replaced"), OneStat("errors")>>))
    ELSE IF row.str = "partial" THEN Val(Object(Obj1("deleted", Num(1))))
    ELSE IF row.str = "scalar" THEN Val(Num(1))
    ELSE IF row.str = "misfit" THEN Val(Object(Obj1("inserted", Arr(<<>>))))
    ELSE IF row.str = "bad_element" THEN Val(Arr(<<OneStat("deleted"), Num(1)>>))
    ELSE LazyThrows("OP_FAILED")

ForeachArgs == {[kind |-> "seq", docs |-> s] : s \in SeqsUpTo(ForeachRows, MaxDocs)}

InitForeach ==
    /\ term = "foreach"
    /\ arg \in ForeachArgs
    /\ limit = MaxLimit      \* foreach generates no keys
    /\ fn = NoFn
    /\ val = NoVal

\* stats.merge(d, stats_merge, ...) for a datum d: d must be an object
MergeDatum(st, d) ==
    IF d.type = "OBJECT" THEN MergeStats(st, d.obj)
    ELSE Obj1("", Thrown("LOGIC"))

\* lines 343-346: the elements of an array merged in order, up to the
\* first that throws
RECURSIVE MergeElements(_, _, _)
MergeElements(st, a, i) ==
    IF i > Len(a) \/ MergeThrew(st) THEN st
    ELSE MergeElements(MergeDatum(st, a[i]), a, i + 1)

InterpretLenient(st, v) ==
    [threw |-> FALSE, exc |-> "", type |-> "NONE",
     stats |-> IF v.lazy = "NONE" /\ v.datum.type = "OBJECT"
                  /\ ~MergeThrew(MergeStats(st, v.datum.obj))
               THEN MergeStats(st, v.datum.obj) ELSE st]

\* lines 338-347, the body of the try block: the new stats, or the
\* exception: [threw, exc (exc_t or datum_exc_t), type, stats]
Interpret(st, v) ==
    IF v.lazy # "NONE" THEN
        [threw |-> TRUE, exc |-> "exc_t", type |-> v.lazy, stats |-> st]
    ELSE
        LET d == v.datum
            merged == IF d.type = "OBJECT" THEN MergeDatum(st, d)
                      ELSE IF d.type = "ARR" THEN MergeElements(st, d.arr, 1)
                      ELSE Obj1("", Thrown("LOGIC"))
        IN  IF MergeThrew(merged)
            THEN [threw |-> TRUE, exc |-> "datum_exc_t", type |-> "LOGIC",
                  stats |-> st]
            ELSE [threw |-> FALSE, exc |-> "", type |-> "NONE", stats |-> merged]

RethrowAsLogic(r) == Exc("LOGIC", fail_msg, "v")

\* lines 348-352: what the catch clauses throw for the exception caught
Rethrow(r) ==
    IF r.exc = "exc_t" THEN Exc(r.type, fail_msg, "original")
    ELSE [Exc(r.type, fail_msg, "v") EXCEPT !.detail = "de.what()"]

\* lines 324-333
ForeachStart ==
    /\ term = "foreach" /\ pc = "start"
    /\ stream' = arg.docs
    /\ stats' = EmptyObj
    /\ pc' = "next"
    /\ UNCHANGED <<term, arg, fn, val, limit, opts, projected, batch, datums, flags,
                   conditions, generated_keys, keys_skipped, uuids, pulls,
                   calls, result, err>>

\* line 335: row = ds->next(...), row.has()
ForeachNext ==
    /\ term = "foreach" /\ pc = "next"
    /\ pulls' = pulls + 1
    /\ IF stream = <<>> THEN
           /\ pc' = "finish"
           /\ UNCHANGED <<stream, datums>>
       ELSE
           /\ datums' = <<Head(stream)>>
           /\ stream' = Tail(stream)
           /\ pc' = "call"
    /\ UNCHANGED <<term, arg, fn, val, limit, opts, projected, batch, flags, stats, conditions, generated_keys, keys_skipped, uuids, calls,
                   result, err>>

\* line 336: v = f->call(env->env, row), outside the try block
ForeachCall ==
    /\ term = "foreach" /\ pc = "call"
    /\ calls' = Append(calls, [op |-> "call", docs |-> datums, flags |-> <<>>,
                               keys |-> <<>>, det |-> TRUE, nondet_ok |-> FALSE])
    /\ IF CallThrows(datums[1]) THEN
           /\ Fail(Exc("NON_EXISTENCE", "No attribute in object", "original"))
           /\ val' = val
       ELSE
           /\ val' = FCall(datums[1])
           /\ pc' = "interpret"
           /\ err' = err
    /\ UNCHANGED <<term, arg, fn, limit, opts, stream, projected, batch, datums,
                   flags, stats, conditions, generated_keys, keys_skipped,
                   uuids, pulls, result>>

\* lines 337-353: the try block and its catch clauses
ForeachInterpret ==
    /\ term = "foreach" /\ pc = "interpret"
    /\ LET r == Interpret(stats, val)
       IN  IF r.threw THEN Fail(Rethrow(r)) /\ stats' = stats
           ELSE stats' = r.stats /\ pc' = "next" /\ err' = err
    /\ datums' = <<>>
    /\ val' = NoVal
    /\ UNCHANGED <<term, arg, fn, limit, opts, stream, projected, batch, flags, conditions, generated_keys, keys_skipped, uuids, pulls, calls,
                   result>>

\* lines 356-358
ForeachFinish ==
    /\ term = "foreach" /\ pc = "finish"
    /\ result' = [has |-> TRUE, stats |-> stats, warnings |-> <<>>]
    /\ pc' = "done"
    /\ UNCHANGED <<term, arg, fn, val, limit, opts, stream, projected, batch, datums,
                   flags, stats, conditions, generated_keys, keys_skipped,
                   uuids, pulls, calls, err>>

Foreach ==
    \/ ForeachStart
    \/ ForeachNext
    \/ ForeachCall
    \/ ForeachInterpret
    \/ ForeachFinish

(***************************************************************************)
(* The stats merge on its own: three stats objects folded both ways.       *)
(***************************************************************************)
MaxMerge == 1     \* most documents a merged stats object accounts for

WithKeys(o, n) ==
    [k \in DOMAIN o \cup {"generated_keys"} |->
        IF k \in DOMAIN o THEN o[k] ELSE Arr(<<Uuid(n)>>)]

\* the stats objects a table call can return for up to MaxMerge documents
PlainObjects == {StatsOf(s) : s \in SeqsUpTo(StatKeys, MaxMerge)}

\* the same, with and without a generated_keys field
MergeObjects == PlainObjects \cup {WithKeys(o, n) : o \in PlainObjects, n \in 1..2}

MergeA == datums[1].obj
MergeB == datums[2].obj
MergeC == datums[3].obj

MergeInit ==
    /\ term = "merge"
    /\ pc = "start"
    /\ datums \in {<<Object(a), Object(b), Object(c)>> :
                      a \in MergeObjects, b \in MergeObjects, c \in PlainObjects}
    /\ arg = [kind |-> "seq", docs |-> <<>>]
    /\ fn = NoFn
    /\ val = NoVal
    /\ limit = MaxLimit
    /\ opts = NoOpts
    /\ stream = <<>>
    /\ projected = 0
    /\ batch = <<>>
    /\ flags = <<>>
    /\ stats = EmptyObj
    /\ conditions = {}
    /\ generated_keys = <<>>
    /\ keys_skipped = 0
    /\ uuids = 0
    /\ pulls = 0
    /\ calls = <<>>
    /\ result = NoResult
    /\ err = NoErr

MergeDone(next, st) ==
    /\ term = "merge" /\ pc = "start"
    /\ stats' = st
    /\ pc' = next
    /\ UNCHANGED <<term, arg, fn, val, limit, opts, stream, projected, batch, datums,
                   flags, conditions, generated_keys, keys_skipped, uuids, pulls,
                   calls, result, err>>

MergeLeft == MergeDone("left", MergeStats(MergeStats(MergeA, MergeB), MergeC))
MergeRight == MergeDone("right", MergeStats(MergeA, MergeStats(MergeB, MergeC)))
MergePair == MergeDone("pair", MergeStats(MergeA, MergeB))
MergeSwapped == MergeDone("swapped", MergeStats(MergeB, MergeA))

MergeNext == MergeLeft \/ MergeRight \/ MergePair \/ MergeSwapped

MergeSpec == MergeInit /\ [][MergeNext]_vars

(***************************************************************************)
(* The specification.                                                      *)
(***************************************************************************)
Init ==
    /\ pc = "start"
    /\ opts = NoOpts
    /\ stream = <<>>
    /\ projected = 0
    /\ batch = <<>>
    /\ datums = <<>>
    /\ flags = <<>>
    /\ stats = EmptyObj
    /\ conditions = {}
    /\ generated_keys = <<>>
    /\ keys_skipped = 0
    /\ uuids = 0
    /\ pulls = 0
    /\ calls = <<>>
    /\ result = NoResult
    /\ err = NoErr
    /\ (InitInsert \/ InitReplace \/ InitForeach)

Next == Insert \/ Replace \/ Foreach

Spec == Init /\ [][Next]_vars

(***************************************************************************)
(* The interrupt.  The loops of insert (lines 169-197) and of replace      *)
(* (lines 283-303) test no interrupt signal themselves: they leave only by *)
(* the break on an empty batch or by an exception.  The signal is seen     *)
(* inside the calls that can suspend, next_batch and the table calls, and  *)
(* an interrupted call does not return: it throws, and nothing in          *)
(* eval_impl catches what it throws.                                       *)
(***************************************************************************)
interrupted_exc == Exc("INTERRUPTED", "interrupted", "none")

\* next_batch (line 172) or batched_insert (lines 157, 191) is interrupted
InsertInterrupted ==
    /\ term = "insert" /\ pc \in {"pull", "call", "lit_call"}
    /\ Fail(interrupted_exc)
    /\ UNCHANGED <<term, arg, fn, val, limit, opts, stream, projected, batch, datums,
                   flags, stats, conditions, generated_keys, keys_skipped, uuids,
                   pulls, calls, result>>

\* next_batch (line 285), replace (line 263) or batched_replace (line 298)
\* is interrupted
ReplaceInterrupted ==
    /\ term = "replace" /\ pc \in {"pull", "call", "single"}
    /\ Fail(interrupted_exc)
    /\ UNCHANGED <<term, arg, fn, val, limit, opts, stream, projected, batch, datums,
                   flags, stats, conditions, generated_keys, keys_skipped, uuids,
                   pulls, calls, result>>

\* the requests that can be interrupted, at the largest array limit
InterruptInit == Init /\ term \in {"insert", "replace"} /\ limit = MaxLimit

InterruptNext == Insert \/ Replace \/ InsertInterrupted \/ ReplaceInterrupted

InterruptSpec == InterruptInit /\ [][InterruptNext]_vars

(***************************************************************************)
(* A request runs on one coroutine that nothing preempts for good: as long *)
(* as eval_impl has a next step, and the calls it makes return, the step   *)
(* is taken.                                                               *)
(***************************************************************************)
\* whether a request ends does not depend on how many generated keys are
\* kept: the requests are run at the largest array limit
FairInit == Init /\ limit = MaxLimit

FairSpec == FairInit /\ [][Next]_vars /\ WF_vars(Next)

(***************************************************************************)
(* Properties.                                                             *)
(***************************************************************************)
TrueCount(fl) == Cardinality({i \in DOMAIN fl : fl[i]})

\* the documents, and the flags, handed to the table engine so far, in order
RECURSIVE SentDocs(_)
SentDocs(cs) == IF cs = <<>> THEN <<>> ELSE Head(cs).docs \o SentDocs(Tail(cs))
RECURSIVE SentFlags(_)
SentFlags(cs) == IF cs = <<>> THEN <<>> ELSE Head(cs).flags \o SentFlags(Tail(cs))

\* C1: a replace whose function is not deterministic and whose non_atomic
\* opt-in is false has failed with a LOGIC error as soon as its optargs are
\* read, with no table call and no pull made; and every table call made
\* with a function that is not deterministic was made with the opt-in true.
C1_DeterminismGate ==
    term = "replace" =>
        /\ (pc # "start" /\ ~opts.nondet_ok /\ ~fn.det) =>
               /\ pc = "failed"
               /\ err.type = "LOGIC"
               /\ calls = <<>>
               /\ pulls = 0
        /\ \A i \in DOMAIN calls : ~calls[i].det => calls[i].nondet_ok

C1_Witness ==
    /\ term = "replace" /\ pc = "failed"
    /\ err.msg = NotDeterministicMsg
    /\ ~fn.det /\ ~opts.nondet_ok

\* C2: in an insert the generated keys never outnumber the limit, the skip
\* count only grows once the limit is reached, every document flagged as
\* given a key carries one, and kept keys + skipped keys is the number of
\* documents given a key so far, over all batches of the request.
C2_GeneratedKeysCapped ==
    term = "insert" =>
        /\ Len(generated_keys) <= limit
        /\ keys_skipped > 0 => Len(generated_keys) = limit
        /\ Len(generated_keys) + keys_skipped
              = TrueCount(SentFlags(calls)) + TrueCount(flags)
        /\ Len(generated_keys) + keys_skipped = uuids
        /\ \A i \in DOMAIN flags : flags[i] => has_pkey(datums[i].obj)

C2_Witness ==
    /\ term = "insert"
    /\ Len(calls) >= 2
    /\ limit >= 1
    /\ Len(generated_keys) = limit
    /\ keys_skipped >= 1

\* the documents of s that are objects without the primary-key field
Keyless(s) == {i \in DOMAIN s : s[i].type = "OBJECT" /\ PKey \notin DOMAIN s[i].obj}

Min(a, b) == IF a < b THEN a ELSE b

FreshState(ds) == [datums |-> ds, flags |-> [i \in DOMAIN ds |-> FALSE],
                   gk |-> <<>>, sk |-> 0, n |-> 0]

\* the state of the key generation when a next batch was pulled
NextBatchState(st, ds) ==
    [st EXCEPT !.datums = ds, !.flags = [i \in DOMAIN ds |-> FALSE]]

\* the 150 key-less documents of the example, run through the key
\* generator in three batches of 50 with a limit of 100
Example150 ==
    LET b == [i \in 1..50 |-> DocNoKey]
        s1 == generate_keys_loop(FreshState(b), 1, 100)
        s2 == generate_keys_loop(NextBatchState(s1, b), 1, 100)
    IN  generate_keys_loop(NextBatchState(s2, b), 1, 100)

\* C3 as stated: one warning when keys were skipped, none otherwise, and the
\* number the warning gives is the number of keys that were dropped (50 for
\* 150 documents and a limit of 100).
C3_WarningStatesSkipped ==
    (term = "insert" /\ pc = "done") =>
        /\ keys_skipped = 0 => result.warnings = <<>>
        /\ keys_skipped > 0 =>
               /\ Len(result.warnings) = 1
               /\ result.warnings[1].count = keys_skipped
               /\ result.warnings[1].truncated_to = Len(generated_keys)

\* C3, amended: a finished insert carries exactly one key-truncation warning
\* when more key-less documents were inserted than the limit allows and none
\* otherwise, over any number of batches; the warning gives the number of
\* keys generated in all (kept + skipped) and the number kept.  For 150
\* key-less documents and a limit of 100: 100 keys kept, one warning giving
\* 150 and 100.
C3_OneTruncationWarning ==
    (term = "insert" /\ pc = "done") =>
        LET n == Cardinality(Keyless(arg.docs))
        IN  /\ Len(generated_keys) = Min(n, limit)
            /\ keys_skipped = n - Min(n, limit)
            /\ n <= limit => result.warnings = <<>>
            /\ n > limit =>
                   /\ Len(result.warnings) = 1
                   /\ result.warnings[1].count = n
                   /\ result.warnings[1].truncated_to = limit
            /\ n > 0 /\ limit > 0 =>
                   Len(result.stats["generated_keys"].arr) = Min(n, limit)
            /\ (arg.docs = <<>> /\ limit = 0) =>
                   /\ Len(Example150.gk) = 100
                   /\ Example150.sk = 50
                   /\ KeysWarning(Example150.sk, Len(Example150.gk)).count = 150
                   /\ KeysWarning(Example150.sk, Len(Example150.gk)).truncated_to
                          = 100

C3_Witness ==
    /\ term = "insert" /\ pc = "done"
    /\ Len(calls) >= 2
    /\ keys_skipped >= 2
    /\ Len(result.warnings) = 1

\* C4: key generation leaves a document that has the primary-key field as
\* it is, with its flag false, and changes neither the generated keys nor
\* the skip count for it; to an object without the field it adds that one
\* field and changes no other; a key a document came with is never among
\* the generated keys.
C4_FrameState ==
    (term = "insert" /\ pc \in {"call", "lit_call"}) =>
        /\ \A i \in DOMAIN batch :
               batch[i].type = "OBJECT" =>
                   IF PKey \in DOMAIN batch[i].obj
                   THEN datums[i] = batch[i] /\ ~flags[i]
                   ELSE /\ flags[i]
                        /\ datums[i].type = "OBJECT"
                        /\ DOMAIN datums[i].obj = DOMAIN batch[i].obj \cup {PKey}
                        /\ \A k \in DOMAIN batch[i].obj :
                               datums[i].obj[k] = batch[i].obj[k]
        /\ \A i \in DOMAIN arg.docs, j \in DOMAIN generated_keys :
               (arg.docs[i].type = "OBJECT" /\ PKey \in DOMAIN arg.docs[i].obj)
                   => generated_keys[j] # arg.docs[i].obj[PKey]

C4_FrameStep ==
    (/\ term = "insert" /\ pc \in {"genkeys", "lit_genkey"}
     /\ \A i \in DOMAIN batch :
            batch[i].type = "OBJECT" /\ PKey \in DOMAIN batch[i].obj)
    => /\ generated_keys' = generated_keys
       /\ keys_skipped' = keys_skipped
       /\ datums' = datums

C4_KeyGenerationFrame == []C4_FrameState /\ [][C4_FrameStep]_vars

C4_Witness ==
    /\ term = "insert" /\ pc = "call"
    /\ Len(batch) >= 2
    /\ batch[1] = DocWithKey /\ datums[1] = DocWithKey
    /\ batch[2] = DocNoKey /\ flags[2]

\* C5: the six counters an insert over a sequence or a replace over a
\* selection returns, and the insert's number of generated keys and skip
\* count, are those of the whole input handled as one batch, however the
\* stream cut the input into batches.
OneBatchInsert ==
    LET st == generate_keys_loop(FreshState(arg.docs), 1, limit)
    IN  [stats |-> batched_insert(st.datums, st.flags, opts.conflict),
         kept |-> Len(st.gk), skipped |-> st.sk]

OneBatchReplace ==
    LET ks == ExtractKeys(arg.docs) IN batched_replace(ks, ks, fn)

C5_BatchingIndependent ==
    /\ (term = "insert" /\ pc = "done" /\ arg.kind = "seq") =>
           /\ \A k \in StatKeys : result.stats[k] = OneBatchInsert.stats[k]
           /\ Len(generated_keys) = OneBatchInsert.kept
           /\ keys_skipped = OneBatchInsert.skipped
    /\ (term = "replace" /\ pc = "done" /\ arg.kind = "selection") =>
           \A k \in StatKeys : result.stats[k] = OneBatchReplace[k]

C5_Witness ==
    /\ term = "insert" /\ pc = "done"
    /\ Len(calls) = 2
    /\ Len(calls[1].docs) = 2
    /\ result.stats["errors"].num >= 1
    /\ result.stats["inserted"].num >= 1

\* C6: the merge that folds the per-batch results is associative and
\* commutative on the six counters, each merged counter being the sum of
\* the counters merged.
C6_MergeAssocComm ==
    term = "merge" =>
        \A k \in StatKeys :
            /\ pc = "left" =>
                   /\ stats[k] = MergeStats(MergeA, MergeStats(MergeB, MergeC))[k]
                   /\ stats[k] = Num(MergeA[k].num + MergeB[k].num + MergeC[k].num)
            /\ pc = "right" =>
                   /\ stats[k] = MergeStats(MergeStats(MergeA, MergeB), MergeC)[k]
                   /\ stats[k] = Num(MergeA[k].num + MergeB[k].num + MergeC[k].num)
            /\ pc = "pair" =>
                   /\ stats[k] = MergeStats(MergeB, MergeA)[k]
                   /\ stats[k] = Num(MergeA[k].num + MergeB[k].num)
            /\ pc = "swapped" =>
                   /\ stats[k] = MergeStats(MergeA, MergeB)[k]
                   /\ stats[k] = Num(MergeA[k].num + MergeB[k].num)

\* two objects whose merge depends on the order outside the six counters
C6_Witness ==
    /\ term = "merge" /\ pc = "swapped"
    /\ stats["inserted"].num = 1 /\ stats["errors"].num = 1
    /\ "generated_keys" \in DOMAIN stats
    /\ stats # MergeStats(MergeA, MergeB)

\* the row the function was last called on, and the exception that the
\* interpretation of its result raises
LastRow == calls[Len(calls)].docs[1]
OriginalType(row) == IF row.str = "lazy_throws" THEN "OP_FAILED" ELSE "LOGIC"

\* C7 as stated: whatever makes a foreach fail, the function's evaluation
\* or the interpretation of its result, the error that leaves foreach has
\* the fixed message and the class of the original error.
C7_EveryErrorWrapped ==
    (term = "foreach" /\ pc = "failed") =>
        /\ err.msg = fail_msg
        /\ err.type = (IF CallThrows(LastRow) THEN "NON_EXISTENCE"
                       ELSE OriginalType(LastRow))

\* C7, amended: an error raised while the result of the function is
\* interpreted (as_datum, the array access, the merge) leaves foreach with
\* the fixed message and the original class, and with the original location
\* when it was an exc_t; an error raised by the call of the function itself
\* leaves foreach as it is, without the fixed message.
C7_InterpretErrorsWrapped ==
    (term = "foreach" /\ pc = "failed") =>
        IF CallThrows(LastRow)
        THEN /\ err.msg # fail_msg
             /\ err.type = "NON_EXISTENCE"
             /\ err.bt = "original"
        ELSE /\ err.msg = fail_msg
             /\ err.type = OriginalType(LastRow)
             /\ LastRow.str = "lazy_throws" => err.bt = "original"

C7_Witness ==
    /\ term = "foreach" /\ pc = "failed"
    /\ LastRow.str = "lazy_throws"
    /\ err.msg = fail_msg /\ err.type = "OP_FAILED"
    /\ Len(calls) >= 2

\* C8: a row whose result is neither an object nor an array, or does not
\* merge, is the last row foreach pulls and the last it calls the function
\* on: foreach fails with the wrapped error, returns no stats, and from
\* then on nothing changes.
C8_FailFastState ==
    term = "foreach" =>
        /\ \A i \in DOMAIN calls :
               calls[i].docs[1].str \in {"scalar", "bad_element"} =>
                   /\ i = Len(calls)
                   /\ pc \in {"interpret", "failed"}
        /\ pc = "failed" =>
               /\ ~result.has
               /\ pulls = Len(calls)
               /\ Len(stream) = Len(arg.docs) - pulls
               /\ ~CallThrows(LastRow) => err.msg = fail_msg
        /\ result.has => \A i \in DOMAIN arg.docs :
               arg.docs[i].str \notin {"scalar", "bad_element", "call_throws",
                                       "lazy_throws"}

C8_FailFastStep ==
    /\ (term = "foreach" /\ pc = "failed") => UNCHANGED vars
    /\ (/\ term = "foreach" /\ pc = "interpret"
        /\ val.lazy = "NONE" /\ val.datum.type \notin {"OBJECT", "ARR"})
       => /\ pc' = "failed"
          /\ err'.msg = fail_msg
          /\ pulls' = pulls /\ calls' = calls /\ stream' = stream
          /\ ~result'.has

C8_FailFast == []C8_FailFastState /\ [][C8_FailFastStep]_vars

C8_Witness ==
    /\ term = "foreach" /\ pc = "failed"
    /\ LastRow.str = "scalar"
    /\ Len(calls) = 2
    /\ stream # <<>>
    /\ stats # EmptyObj

RECURSIVE SumInsertErrors(_)
SumInsertErrors(cs) ==
    IF cs = <<>> THEN 0
    ELSE batched_insert(Head(cs).docs, Head(cs).flags, opts.conflict)["errors"].num
         + SumInsertErrors(Tail(cs))

RECURSIVE SumReplaceErrors(_)
SumReplaceErrors(cs) ==
    IF cs = <<>> THEN 0
    ELSE (IF Head(cs).op = "replace"
          THEN single_replace(Head(cs).docs[1], fn)
          ELSE batched_replace(Head(cs).docs, Head(cs).keys, fn))["errors"].num
         + SumReplaceErrors(Tail(cs))

\* C9: a table call that reports errors never ends an insert or a replace:
\* no request fails once a table call was made, a finished request has
\* pulled the source empty and handed every document of it to the table,
\* and its errors counter is the sum of the errors of all the calls.
C9_ErrorsAbsorbed ==
    term \in {"insert", "replace"} =>
        /\ pc = "failed" => calls = <<>>
        /\ pc = "done" =>
               /\ stream = <<>>
               /\ Len(SentDocs(calls)) = Len(arg.docs)
               /\ result.stats["errors"].num
                      = (IF term = "insert" THEN SumInsertErrors(calls)
                         ELSE SumReplaceErrors(calls))

C9_Witness ==
    /\ term = "insert" /\ pc = "done"
    /\ Len(calls) = 3
    /\ batched_insert(calls[1].docs, calls[1].flags, opts.conflict)["errors"].num = 1
    /\ result.stats["errors"].num = 2
    /\ result.stats["inserted"].num = 1

\* C10: a document whose key generation throws does not fail the insert:
\* it reaches the table call of its batch unchanged, at its position, with
\* its flag false, it adds nothing to the generated keys or the skip count,
\* and the documents after it in the batch get their keys all the same.
C10_KeyErrorSwallowed ==
    term = "insert" =>
        /\ pc = "failed" => (calls = <<>> /\ pulls = 0)
        /\ Len(SentDocs(calls)) <= Len(arg.docs)
        /\ \A i \in DOMAIN SentDocs(calls) :
               /\ arg.docs[i].type # "OBJECT" =>
                      /\ SentDocs(calls)[i] = arg.docs[i]
                      /\ ~SentFlags(calls)[i]
               /\ i \in Keyless(arg.docs) =>
                      /\ SentFlags(calls)[i]
                      /\ PKey \in DOMAIN SentDocs(calls)[i].obj
        /\ pc \in {"pull", "finish", "done"} =>
               Len(generated_keys) + keys_skipped
                   = Cardinality(Keyless(SubSeq(arg.docs, 1, Len(SentDocs(calls)))))
        /\ pc = "call" => \A i \in DOMAIN batch :
               /\ batch[i].type # "OBJECT" => (datums[i] = batch[i] /\ ~flags[i])
               /\ i \in Keyless(batch) => flags[i]

C10_Witness ==
    /\ term = "insert" /\ pc = "pull"
    /\ Len(calls) = 1
    /\ calls[1].docs[1] = Scalar
    /\ calls[1].flags = <<FALSE, TRUE>>
    /\ Len(generated_keys) + keys_skipped = 1

C11_InterruptState ==
    err.type = "INTERRUPTED" =>
        /\ pc = "failed"
        /\ result = NoResult
        /\ pulls \in {Len(calls), Len(calls) + 1}

C11_InterruptStep ==
    /\ err.type = "INTERRUPTED" => UNCHANGED vars
    /\ (err.type # "INTERRUPTED" /\ err'.type = "INTERRUPTED") =>
           /\ pc \in {"pull", "call", "lit_call", "single"}
           /\ pulls' = pulls /\ calls' = calls /\ stats' = stats

EmptyDoc == Object(EmptyObj)

ExampleLimit0 ==
    LET st == generate_keys_loop(FreshState(<<EmptyDoc, EmptyDoc, EmptyDoc>>), 1, 0)
        total == MergeStats(new_stats_object,
                            batched_insert(st.datums, st.flags, "ERROR"))
    IN  insert_result(FoldGeneratedKeys(total, st.gk), st.gk, st.sk)

ThreeKeyless == arg.kind = "seq" /\ arg.docs = <<DocNoKey, DocNoKey, DocNoKey>>

\* C12 (as the spec words it): three key-less documents with a limit of 0
\* give a skipped counter of 3, no generated_keys and the warning 3 to 0.
C12_SkippedCounterIsThree ==
    (term = "insert" /\ pc = "done" /\ ThreeKeyless /\ limit = 0) =>
        /\ result.stats["skipped"].num = 3
        /\ "generated_keys" \notin DOMAIN result.stats
        /\ Len(result.warnings) = 1
        /\ result.warnings[1].count = 3
        /\ result.warnings[1].truncated_to = 0

\* C12: three key-less documents inserted with a limit of 0 return a stats
\* object without a generated_keys field and with the one warning of 3
\* generated keys truncated to 0; the skipped counter of the stats is the
\* sum of the ones the table calls returned and takes nothing from the skip
\* count of the key generator: all three documents get a key and are
\* inserted, and skipped is 0.
C12_LimitZero ==
    (term = "insert" /\ pc = "done" /\ ThreeKeyless /\ limit = 0) =>
        /\ keys_skipped = 3
        /\ generated_keys = <<>>
        /\ "generated_keys" \notin DOMAIN result.stats
        /\ result.warnings = <<KeysWarning(3, 0)>>
        /\ result.warnings[1].count = 3
        /\ result.warnings[1].truncated_to = 0
        /\ result.stats["skipped"].num = 0
        /\ result.stats["inserted"].num = 3
        /\ \A i \in 1..3 : /\ SentFlags(calls)[i]
                            /\ PKey \in DOMAIN SentDocs(calls)[i].obj
        /\ DOMAIN ExampleLimit0.stats = StatKeys
        /\ ExampleLimit0.stats["skipped"].num = 0
        /\ ExampleLimit0.stats["inserted"].num = 3
        /\ ExampleLimit0.warnings = <<KeysWarning(3, 0)>>

C12_Witness ==
    /\ term = "insert" /\ pc = "done" /\ ThreeKeyless /\ limit = 0
    /\ Len(calls) = 2
    /\ keys_skipped = 3
    /\ Len(result.warnings) = 1

\* the values the spec lists for each option, and what each one stands for
ConflictTable ==
    {<<Absent, "ERROR">>, <<StrArg("error"), "ERROR">>,
     <<StrArg("replace"), "REPLACE">>, <<StrArg("update"), "UPDATE">>}
DurabilityTable ==
    {<<Absent, "DEFAULT">>, <<StrArg("hard"), "HARD">>, <<StrArg("soft"), "SOFT">>}
ReturnChangesTable ==
    {<<Absent, "NO">>, <<BoolArg(TRUE), "YES">>, <<BoolArg(FALSE), "NO">>,
     <<StrArg("always"), "ALWAYS">>}

Accepted(table) == {e[1] : e \in table}
ValueOf(table, a) == (CHOOSE e \in table : e[1] = a)[2]

OptionMsgs ==
    {"encountered obsolete optarg return_vals", "Invalid return_changes value",
     "expected type BOOL", "conflict: expected type STRING",
     "Conflict option unrecognized", "durability: expected type STRING",
     "Durability option unrecognized"}

\* each parser on each value, and the parsers in the order of each term
C13_Parsers ==
    /\ \A cf \in ConflictArgs :
           LET r == parse_conflict_optarg(cf)
           IN  /\ r.ok <=> cf \in Accepted(ConflictTable)
               /\ r.ok => r.val = ValueOf(ConflictTable, cf)
               /\ ~r.ok => r.msg \in OptionMsgs
    /\ \A du \in DurabilityArgs :
           LET r == parse_durability_optarg(du)
           IN  /\ r.ok <=> du \in Accepted(DurabilityTable)
               /\ r.ok => r.val = ValueOf(DurabilityTable, du)
               /\ ~r.ok => r.msg \in OptionMsgs
    /\ \A rv \in ReturnValsArgs, rc \in ReturnChangesArgs :
           LET r == parse_return_changes(rv, rc)
           IN  /\ r.ok <=> (rv = Absent /\ rc \in Accepted(ReturnChangesTable))
               /\ r.ok => r.val = ValueOf(ReturnChangesTable, rc)
               /\ ~r.ok => r.msg \in OptionMsgs
               /\ rv # Absent => r.msg = "encountered obsolete optarg return_vals"
    /\ \A rv \in ReturnValsArgs, rc \in ReturnChangesArgs,
          cf \in ConflictArgs, du \in DurabilityArgs :
           LET r == insert_optargs(rv, rc, cf, du)
           IN  /\ r.ok <=> /\ rv = Absent
                            /\ rc \in Accepted(ReturnChangesTable)
                            /\ cf \in Accepted(ConflictTable)
                            /\ du \in Accepted(DurabilityTable)
               /\ ~r.ok => r.msg \in OptionMsgs
    /\ \A na \in NonAtomicArgs, rv \in ReturnValsArgs, rc \in ReturnChangesArgs,
          du \in DurabilityArgs :
           LET r == replace_optargs(na, rv, rc, du)
           IN  /\ r.ok <=> /\ rv = Absent
                            /\ rc \in Accepted(ReturnChangesTable)
                            /\ du \in Accepted(DurabilityTable)
               /\ ~r.ok => r.msg \in OptionMsgs

C14_ProjectionState ==
    term = "replace" =>
        /\ projected \in {0, 1}
        /\ pc \in {"start", "arg0"} => (projected = 0 /\ pulls = 0)
        /\ arg.kind = "single" => projected = 0
        /\ (arg.kind = "selection" /\ (pulls > 0 \/ pc = "pull")) =>
               (projected = 1 <=> fn.det)
        /\ \A i \in DOMAIN calls : calls[i].op = "batched_replace" =>
               /\ Len(calls[i].keys) = Len(calls[i].docs)
               /\ fn.det =>
                      /\ calls[i].keys = calls[i].docs
                      /\ \A j \in DOMAIN calls[i].docs :
                             calls[i].docs[j].type # "OBJECT"
               /\ ~fn.det =>
                      \A j \in DOMAIN calls[i].docs :
                          /\ calls[i].docs[j] \in TableRows
                          /\ calls[i].keys[j] = calls[i].docs[j].obj[PKey]

C14_ProjectionStep ==
    (term = "replace" /\ projected' # projected) =>
        /\ pc = "arg0" /\ pc' = "pull"
        /\ projected = 0 /\ projected' = 1
        /\ pulls = 0 /\ pulls' = 0
        /\ fn.det

\* C14: in a replace over a selection the projection of the primary key is
\* attached to the stream exactly when the function is deterministic, once,
\* before the first pull; with a deterministic function every
\* batched_replace gets the pulled keys as both its values and its keys and
\* no document is there to read a key from, with a non-deterministic one
\* it gets the pulled rows and the keys read from their primary-key fields.
C14_ProjectionIffDeterministic ==
    []C14_ProjectionState /\ [][C14_ProjectionStep]_vars

C14_Witness ==
    /\ term = "replace" /\ arg.kind = "selection" /\ fn.det
    /\ projected = 1
    /\ Len(calls) = 1
    /\ calls[1].docs = <<Num(1), Num(2)>>
    /\ calls[1].keys = <<Num(1), Num(2)>>
    /\ pc = "pull" /\ stream # <<>>

\* the example of the spec: a document with the key 1 and one without any
\* field, through the key generation of one batch
ExampleMixed == generate_keys_loop(FreshState(<<DocWithKey, EmptyDoc>>), 1, MaxLimit)

\* C15: every batched_insert gets as many flags as documents; a flag is
\* true exactly for a document that came without the primary key, and that
\* document is sent with a key generated in this request while the others
\* are sent as they came; between batches and at the end the true flags
\* sent are as many as the keys kept plus the keys skipped.  Inserting a
\* document with id 1 and one without key sends the flags false, true and
\* the first document with its id 1, and generated_keys has length 1.
C15_FlagsMatchDocs ==
    term = "insert" =>
        /\ \A i \in DOMAIN calls :
               /\ Len(calls[i].flags) = Len(calls[i].docs)
               /\ Len(calls[i].docs) > 0
        /\ \A i \in DOMAIN SentDocs(calls) :
               /\ SentFlags(calls)[i] <=> i \in Keyless(arg.docs)
               /\ SentFlags(calls)[i] =>
                      /\ SentDocs(calls)[i].type = "OBJECT"
                      /\ PKey \in DOMAIN SentDocs(calls)[i].obj
                      /\ \E n \in 1..uuids :
                             SentDocs(calls)[i].obj[PKey] = generate_uuid(n)
               /\ ~SentFlags(calls)[i] => SentDocs(calls)[i] = arg.docs[i]
        /\ pc \in {"pull", "finish", "done"} =>
               TrueCount(SentFlags(calls)) = Len(generated_keys) + keys_skipped
        /\ (pc = "done" /\ arg.docs = <<DocWithKey, DocNoKey>> /\ limit > 0) =>
               /\ SentFlags(calls) = <<FALSE, TRUE>>
               /\ SentDocs(calls)[1].obj[PKey] = Num(1)
               /\ Len(generated_keys) = 1
               /\ Len(result.stats["generated_keys"].arr) = 1
               /\ ExampleMixed.flags = <<FALSE, TRUE>>
               /\ ExampleMixed.datums[1] = DocWithKey
               /\ ExampleMixed.datums[2] = Object(Obj1(PKey, generate_uuid(1)))
               /\ Len(ExampleMixed.gk) = 1 /\ ExampleMixed.sk = 0

C15_Witness ==
    /\ term = "insert" /\ pc = "done"
    /\ arg.docs = <<DocWithKey, DocNoKey>>
    /\ limit > 0
    /\ Len(calls) = 1
    /\ calls[1].flags = <<FALSE, TRUE>>
    /\ Len(generated_keys) = 1

\* the requests that run a loop over a stream
LoopRequest ==
    \/ term = "insert" /\ arg.kind = "seq"
    \/ term = "replace" /\ arg.kind = "selection"

\* how many documents a stats object accounts for
StatsTotal(st) ==
    st["inserted"].num + st["deleted"].num + st["skipped"].num
        + st["replaced"].num + st["unchanged"].num + st["errors"].num

C16_LoopState ==
    LoopRequest =>
        /\ \A i \in DOMAIN calls : Len(calls[i].docs) > 0
        /\ pc = "pull" => (pulls = Len(calls) /\ batch = <<>>)
        /\ pc \in {"genkeys", "call"} =>
               (pulls = Len(calls) + 1 /\ batch # <<>> /\ datums # <<>>)
        /\ pc \in {"finish", "done"} =>
               (pulls = Len(calls) + 1 /\ stream = <<>> /\ batch = <<>>)
        /\ pc \in {"pull", "genkeys", "call", "finish"} =>
               StatsTotal(stats) = Len(SentDocs(calls))

C16_LoopStep ==
    LoopRequest =>
        /\ pulls' # pulls =>
               /\ pc = "pull" /\ pulls' = pulls + 1
               /\ calls' = calls /\ stats' = stats
               /\ pc' = IF stream = <<>> THEN "finish"
                        ELSE IF term = "insert" THEN "genkeys" ELSE "call"
        /\ calls' # calls =>
               /\ pc = "call" /\ pc' = "pull"
               /\ Len(calls') = Len(calls) + 1
               /\ SubSeq(calls', 1, Len(calls)) = calls
               /\ calls'[Len(calls')].docs = datums
               /\ pulls' = pulls
               /\ StatsTotal(stats') = StatsTotal(stats) + Len(datums)
        /\ pc \in {"finish", "done"} => (pulls' = pulls /\ calls' = calls)

\* C16: in the loop of insert and of replace over a selection every pull
\* but the last is followed by exactly one table call, on the non-empty
\* batch it returned, whose result is merged into the stats before the next
\* pull; the empty batch ends the loop, and after it nothing is pulled and
\* the table is not called.
C16_LoopSequential == []C16_LoopState /\ [][C16_LoopStep]_vars

C16_Witness ==
    /\ term = "replace" /\ arg.kind = "selection" /\ pc = "done"
    /\ pulls = 3
    /\ Len(calls) = 2
    /\ Len(calls[1].docs) = 2
    /\ StatsTotal(result.stats) = 3

C17_LiteralState ==
    (term = "insert" /\ arg.kind = "datum") =>
        /\ pulls = 0
        /\ stream = <<>>
        /\ Len(calls) <= 1
        /\ \A i \in DOMAIN calls :
               /\ calls[i].op = "batched_insert"
               /\ Len(calls[i].docs) = 1
               /\ Len(calls[i].flags) = 1
        /\ arg.docs[1].type = "OBJECT" =>
               /\ pc \in {"finish", "done"} => Len(calls) = 1
               /\ pc = "failed" => err.msg \in OptionMsgs
        /\ arg.docs[1].type # "OBJECT" =>
               /\ calls = <<>>
               /\ pc \in {"start", "arg1", "failed"}
               /\ (pc = "failed" /\ err.msg \notin OptionMsgs) =>
                      /\ err.type = "LOGIC"
                      /\ err.msg = "Cannot convert to SEQUENCE"

C17_LiteralStep ==
    (term = "insert" /\ arg.kind = "datum" /\ pc = "arg1") =>
        /\ arg.docs[1].type = "OBJECT" => pc' = "lit_genkey"
        /\ arg.docs[1].type # "OBJECT" =>
               (pc' = "failed" /\ err'.msg = "Cannot convert to SEQUENCE")

\* C17: an insert of one literal object calls batched_insert exactly once,
\* with one document and one flag, and pulls from no stream; a literal
\* that is no object never enters that path and is never handed to the
\* table: it goes to the conversion of the argument to a stream, which is
\* what rejects a scalar, with a type error.
C17_LiteralPath == []C17_LiteralState /\ [][C17_LiteralStep]_vars

C17_Witness ==
    /\ term = "insert" /\ arg.kind = "datum" /\ pc = "done"
    /\ arg.docs = <<DocNoKey>>
    /\ Len(calls) = 1
    /\ calls[1].flags = <<TRUE>>
    /\ pulls = 0

\* the keys on which a merge of l and r calls its resolver: the ones both have
ResolvedKeys(l, r) == DOMAIN l \cap DOMAIN r

\* C18: no insert runs pure_merge: a key is merged only into a document
\* without the primary-key field, generated_keys is folded only into stats
\* without that field, so neither merge has a key to resolve; no insert
\* fails on a sanity check, and every key generated ends in generated_keys
\* or in the skip count, none is lost to a merge that threw.
C18_PureMergeUnreachable ==
    term = "insert" =>
        /\ err.type # "INTERNAL"
        /\ ~MergeThrew(stats)
        /\ uuids = Len(generated_keys) + keys_skipped
        /\ pc \in {"genkeys", "lit_genkey"} =>
               \A i \in DOMAIN datums :
                   (datums[i].type = "OBJECT" /\ ~has_pkey(datums[i].obj)) =>
                       /\ ResolvedKeys(datums[i].obj,
                                       Obj1(PKey, generate_uuid(uuids + 1))) = {}
                       /\ ~MergeThrew(add_generated_key(datums[i].obj,
                                                        generate_uuid(uuids + 1)))
        /\ pc \in {"call", "lit_call"} =>
               \A i \in DOMAIN datums :
                   datums[i].type = "OBJECT" => ~MergeThrew(datums[i].obj)
        /\ pc = "finish" =>
               /\ ResolvedKeys(stats, Obj1("generated_keys", Arr(generated_keys))) = {}
               /\ ~MergeThrew(FoldGeneratedKeys(stats, generated_keys))
        /\ pc = "done" =>
               (Len(generated_keys) > 0 =>
                    result.stats["generated_keys"] = Arr(generated_keys))

C18_Witness ==
    /\ term = "insert" /\ pc = "done"
    /\ arg.docs = <<DocWithKey, DocNoKey, DocNoKey>>
    /\ Len(calls) = 2
    /\ uuids = 2
    /\ Len(generated_keys) = 1
    /\ Len(result.stats["generated_keys"].arr) = 1

\* the keys of the stats the function returns for a row
RowKeys(row) ==
    LET d == FCall(row).datum
    IN  IF d.type = "OBJECT" THEN DOMAIN d.obj
        ELSE IF d.type = "ARR" THEN UNION {DOMAIN d.arr[i].obj : i \in DOMAIN d.arr}
        ELSE {}

\* C19: insert and replace start from the six counters at 0, keep all six
\* in their stats and return them; over an empty source they return six
\* zeros and call the table not once.  foreach starts from the empty
\* object and returns exactly the keys its rows' results held: none of the
\* six counters over an empty source.
C19_InitialStats ==
    /\ term \in {"insert", "replace"} =>
           /\ pc \in {"arg0", "arg1"} =>
                  (DOMAIN stats = StatKeys /\ \A k \in StatKeys : stats[k] = Num(0))
           /\ pc \notin {"start", "failed"} => StatKeys \subseteq DOMAIN stats
           /\ pc = "done" =>
                  /\ StatKeys \subseteq DOMAIN result.stats
                  /\ (arg.kind # "single" /\ arg.docs = <<>>) =>
                         /\ DOMAIN result.stats = StatKeys
                         /\ \A k \in StatKeys : result.stats[k] = Num(0)
                         /\ calls = <<>>
    /\ term = "foreach" =>
           /\ (pc = "next" /\ pulls = 0) => stats = EmptyObj
           /\ pc = "done" =>
                  /\ DOMAIN result.stats
                         = UNION {RowKeys(arg.docs[i]) : i \in DOMAIN arg.docs}
                  /\ arg.docs = <<>> =>
                         /\ result.stats = EmptyObj
                         /\ StatKeys \cap DOMAIN result.stats = {}
                         /\ calls = <<>>

C19_Witness ==
    /\ term = "foreach" /\ pc = "done"
    /\ arg.docs = <<Str("partial"), Str("partial")>>
    /\ DOMAIN result.stats = {"deleted"}
    /\ result.stats["deleted"].num = 2

\* the elements pulled from the source so far, in pull order
Pulled ==
    IF pulls = 0 THEN <<>>
    ELSE SubSeq(arg.docs, 1, Len(arg.docs) - Len(stream))

\* what is handed over for a source element: the row itself to the function
\* of foreach, the row or its projected key to batched_replace, the
\* document, with a generated key if it had none, to batched_insert
HandedFor(d, sent) ==
    IF term = "foreach" THEN sent = d
    ELSE IF term = "replace" THEN sent = Transformed(d)
    ELSE IF d.type = "OBJECT" /\ ~has_pkey(d.obj)
         THEN /\ sent.type = "OBJECT"
              /\ DOMAIN sent.obj = DOMAIN d.obj \cup {PKey}
              /\ \A k \in DOMAIN d.obj : sent.obj[k] = d.obj[k]
         ELSE sent = d

Ended == pc \in {"done", "failed"}

C20_ExactlyOnce ==
    ((LoopRequest \/ term = "foreach") /\ Ended) =>
        /\ Len(SentDocs(calls)) = Len(Pulled)
        /\ \A i \in DOMAIN Pulled : HandedFor(Pulled[i], SentDocs(calls)[i])
        /\ \A i \in DOMAIN calls : Len(calls[i].docs) > 0
        /\ pc = "done" => (Pulled = arg.docs /\ stream = <<>>)
        /\ pulls <= Len(arg.docs) + 1

\* C20 (as the spec words it): every insert, replace over a selection and
\* foreach over a finite source eventually returns.
C20_AlwaysReturns ==
    (LoopRequest \/ term = "foreach") => <>(pc = "done")

\* C20: over a finite source, with calls that return, every insert, replace
\* over a selection and foreach eventually ends: it returns, or it fails
\* with a request-level error (a rejected option, the determinism gate, a
\* source that is no sequence, a foreach row that does not conform); and
\* when it has ended every element pulled was handed, in pull order, to
\* exactly one table call (one function call in foreach), and a request
\* that returned has pulled the whole source.
C20_Terminates ==
    /\ (LoopRequest \/ term = "foreach") => <>Ended
    /\ []C20_ExactlyOnce

C20_Witness ==
    /\ term = "insert" /\ pc = "done"
    /\ Len(arg.docs) = 3
    /\ Len(calls) = 2
    /\ pulls = 3
    /\ Len(SentDocs(calls)) = 3

====
